---- MODULE Spec2Model ----
(***************************************************************************)
(* Model of the Highscore front-end adapter of mGBA                        *)
(* (src/platform/highscore/mgba-highscore.c): the per-frame audio pacer,   *)
(* the Game Boy model selection, and the life cycle of the process-wide    *)
(* current-instance pointer.                                               *)
(***************************************************************************)
EXTENDS Integers, Sequences, FiniteSets

(***************************************************************************)
(* IEEE-754 binary32 arithmetic on the values the pacer handles.           *)
(* A float is [m |-> mantissa, e |-> exponent] with value m * 2^e and      *)
(* 2^23 <= m < 2^24, or m = 0 (then e = 0).  Only non-negative, normal     *)
(* values occur.  Every operation rounds to nearest, ties to even, as the  *)
(* C float operators do when each operation is evaluated in binary32.      *)
(* Intermediate products are split in 12-bit limbs so that no integer      *)
(* exceeds 31 bits.                                                        *)
(***************************************************************************)
TwoP12 == 2^12
TwoP23 == 2^23
TwoP24 == 2^24

FZero == [m |-> 0, e |-> 0]

RECURSIVE NormUp(_, _)
\* m > 0, m < 2^24: shift left until the leading bit is bit 23 (exact).
NormUp(m, e) == IF m >= TwoP23 THEN [m |-> m, e |-> e] ELSE NormUp(2 * m, e - 1)

\* (float) n for an integer 0 <= n < 2^24: exact.
IntToFloat(n) == IF n = 0 THEN FZero ELSE NormUp(n, 0)

\* Round q (2^23 <= q < 2^24) up or not; cmp is the discarded part compared
\* with half a unit: -1 below, 0 a tie, 1 above.
RoundNE(q, e, cmp) ==
    LET up == (cmp = 1) \/ (cmp = 0 /\ q % 2 = 1)
        r == IF up THEN q + 1 ELSE q
    IN IF r = TwoP24 THEN [m |-> TwoP23, e |-> e + 1] ELSE [m |-> r, e |-> e]

Cmp(a, b) == IF a < b THEN -1 ELSE IF a = b THEN 0 ELSE 1

\* x * y
FMul(x, y) ==
    IF x.m = 0 \/ y.m = 0 THEN FZero
    ELSE LET a1 == x.m \div TwoP12
             a0 == x.m % TwoP12
             b1 == y.m \div TwoP12
             b0 == y.m % TwoP12
             mid == a1 * b0 + a0 * b1
             sumLow == a0 * b0 + (mid % TwoP12) * TwoP12
             L == sumLow % TwoP24
             H == a1 * b1 + (mid \div TwoP12) + (sumLow \div TwoP24)
             \* the exact product is (H * 2^24 + L) * 2^(x.e + y.e)
         IN IF H >= TwoP23
            THEN RoundNE(H, x.e + y.e + 24, Cmp(L, TwoP23))
            ELSE RoundNE(2 * H + (L \div TwoP23), x.e + y.e + 23,
                         Cmp(L % TwoP23, 2^22))

\* hi + lo for hi.e >= lo.e, both non-zero
FAddOrdered(hi, lo) ==
    LET d == hi.e - lo.e
    IN IF d > 25 THEN hi
       ELSE LET p == 2^d
                s == hi.m + (lo.m \div p)
                rem == lo.m % p
            IN IF s < TwoP24
               THEN RoundNE(s, hi.e, Cmp(2 * rem, p))
               ELSE RoundNE(s \div 2, hi.e + 1, Cmp((s % 2) * p + rem, p))

\* x + y
FAdd(x, y) ==
    IF x.m = 0 THEN y
    ELSE IF y.m = 0 THEN x
    ELSE IF x.e >= y.e THEN FAddOrdered(x, y) ELSE FAddOrdered(y, x)

\* x - y for x > y > 0 with x.e - y.e <= 25
FSub(x, y) ==
    LET d == x.e - y.e
        p == 2^d
        yh == y.m \div p
        yl == y.m % p
        ip == x.m - yh - (IF yl > 0 THEN 1 ELSE 0)
        fr == IF yl > 0 THEN p - yl ELSE 0
        \* the exact difference is (ip * 2^d + fr) * 2^(y.e)
    IN IF ip >= TwoP23 THEN RoundNE(ip, x.e, Cmp(2 * fr, p))
       ELSE IF d = 0 THEN NormUp(ip, x.e)
       ELSE IF d = 1 THEN NormUp(2 * ip + fr, y.e)
       ELSE RoundNE(2 * ip + (fr \div (p \div 2)), x.e - 1,
                    Cmp(2 * (fr % (p \div 2)), p \div 2))

RECURSIVE DivBits(_, _, _, _)
\* Long division: n more quotient bits of r / dv (r < dv), q the bits so far.
\* Returns the quotient and the final remainder.
DivBits(r, dv, q, n) ==
    IF n = 0 THEN [q |-> q, r |-> r]
    ELSE IF 2 * r >= dv THEN DivBits(2 * r - dv, dv, 2 * q + 1, n - 1)
    ELSE DivBits(2 * r, dv, 2 * q, n - 1)

\* x / y for x, y > 0
FDiv(x, y) ==
    IF x.m >= y.m
    THEN LET qr == DivBits(x.m - y.m, y.m, 1, 23)
         IN RoundNE(qr.q, x.e - y.e - 23, Cmp(2 * qr.r, y.m))
    ELSE LET qr == DivBits(x.m, y.m, 0, 24)
         IN RoundNE(qr.q, x.e - y.e - 24, Cmp(2 * qr.r, y.m))

\* (size_t) f: truncation toward zero, for 0 <= f < 2^24
FloatToSize(f) ==
    IF f.m = 0 \/ f.e < -23 THEN 0
    ELSE IF f.e >= 0 THEN f.m * 2^(f.e)
    ELSE f.m \div 2^(-f.e)



(***************************************************************************)
(* Program constants                                                       *)
(***************************************************************************)
GB_SAMPLES == 512

NULL == 0

\* SAMPLES_PER_FRAME_MOVING_AVG_ALPHA: (1.0f / 180.0f)
SAMPLES_PER_FRAME_MOVING_AVG_ALPHA == FDiv(IntToFloat(1), IntToFloat(180))

\* (1.0f - SAMPLES_PER_FRAME_MOVING_AVG_ALPHA)
ONE_MINUS_ALPHA == FSub(IntToFloat(1), SAMPLES_PER_FRAME_MOVING_AVG_ALPHA)

(***************************************************************************)
(* Bounds of the model                                                     *)
(***************************************************************************)
MaxFrames == 4
MaxInstances == 2
MaxConstCalls == 545

(***************************************************************************)
(* What the engine and the host hand to the adapter                        *)
(***************************************************************************)
Platforms == {"GBA", "GB"}

\* The timing the engine reports at construction: frequency(), frameCycles()
\* and audioSampleRate().  The first three are Game Boy Advance timings at
\* the sample rates its mixer runs at and at a common host rate; the last
\* is the smallest case, a nominal of zero sample frames per video frame.
EngineTimings ==
    { [freq |-> 16777216, cycles |-> 280896, rate |-> 32768],
      [freq |-> 16777216, cycles |-> 280896, rate |-> 48000],
      [freq |-> 16777216, cycles |-> 280896, rate |-> 65536],
      [freq |-> 16777216, cycles |-> 280896, rate |-> 32] }

\* Sample frames the engine leaves in its audio buffer after runFrame.
AvailableValues == {0, 1, 800, 1600}

\* The postAudioBuffer calls the engine makes inside one runFrame on the
\* Game Boy path: the sample frames buffered at each call.
CallbackRuns == { <<>>, <<0>>, <<512>>, <<700>>, <<512, 512>> }

HsGameBoyModels ==
    { "HS_GAME_BOY_MODEL_GAME_BOY", "HS_GAME_BOY_MODEL_GAME_BOY_POCKET",
      "HS_GAME_BOY_MODEL_GAME_BOY_COLOR", "HS_GAME_BOY_MODEL_GAME_BOY_ADVANCE",
      "HS_GAME_BOY_MODEL_SUPER_GAME_BOY", "HS_GAME_BOY_MODEL_SUPER_GAME_BOY_2" }

\* A value of the enum type that is none of its enumerators.
UndefinedModel == "HS_GAME_BOY_MODEL_UNDEFINED"

ModelKeys == {"gb.model", "sgb.model", "cgb.model", "cgb.hybridModel", "cgb.sgbModel"}

Min(a, b) == IF a < b THEN a ELSE b

RECURSIVE GCD(_, _)
GCD(a, b) == IF b = 0 THEN a ELSE GCD(b, a % b)

(***************************************************************************)
(* The audio pacer, piece by piece                                         *)
(***************************************************************************)
\* mgba_core_get_sample_rate / mgba_core_get_frame_rate, converted to size_t:
\* floor(rate / (freq / cycles)).  The quotient is taken exactly; the C
\* double arithmetic gives the same integer unless the exact quotient lies
\* within rounding distance of an integer, which none of EngineTimings does.
SamplesPerFrame(t) ==
    LET g == GCD(t.freq, t.cycles)
    IN (t.rate * (t.cycles \div g)) \div (t.freq \div g)

\* Faulty variant: drops the term of the new reading.
EstimateUpdate_NoInput(avg, available) == FMul(ONE_MINUS_ALPHA, avg)

\* The leaky integrator of run_frame.
EstimateUpdate(avg, available) ==
    FAdd(FMul(SAMPLES_PER_FRAME_MOVING_AVG_ALPHA, IntToFloat(available)),
         FMul(ONE_MINUS_ALPHA, avg))

\* samples_to_read = (size_t) self->audio_samples_per_frame_avg
SamplesToRead(avg) == FloatToSize(avg)

\* Faulty variants: a buffer sized in sample frames rather than int16 values,
\* and a buffer always resized to the current request.
ResizeBuffer_Mono(size, samples_to_read) ==
    IF size < samples_to_read THEN samples_to_read ELSE size

ResizeBuffer_Exact(size, samples_to_read) == samples_to_read * 2

\* "Resize audio output buffer, if required": the new audio_buffer_size.
ResizeBuffer(size, samples_to_read) ==
    IF size < samples_to_read * 2 THEN samples_to_read * 2 ELSE size

\* mAudioBufferRead(buffer, out, count) on a buffer holding `available`
\* sample frames: the number of frames drained.
mAudioBufferRead(available, count) == Min(count, available)

\* Faulty variant: treats an empty accumulator like any other reading.
HasSamples_Always(available) == available >= 0

\* if (available > 0)
HasSamples(available) == available > 0

\* Faulty variant: hands every read to the host, empty or not.
ShouldPlay_Always(produced) == TRUE

\* if (produced > 0)
ShouldPlay(produced) == produced > 0

\* Faulty variant: passes the frame count where the int16 count is expected.
PlayLength_Frames(produced) == produced

\* hs_core_play_samples (core, self->audio_buffer, produced * 2)
PlayLength(produced) == produced * 2

\* audio_buffer_size as mgba_core_constructed sets it
InitialBufferSize(platform, t) ==
    IF platform = "GBA" THEN SamplesPerFrame(t) * 2 ELSE GB_SAMPLES * 2

\* audio_samples_per_frame_avg as mgba_core_constructed sets it
InitialEstimate(platform, t) ==
    IF platform = "GBA" THEN IntToFloat(SamplesPerFrame(t)) ELSE IntToFloat(GB_SAMPLES)

(***************************************************************************)
(* Game Boy model selection                                                *)
(***************************************************************************)
\* Faulty variants: Super Game Boy 2 configured as Super Game Boy, and a switch
\* whose default falls through with the first enumerator's value.
HsToGBModel_NoSGB2(model) ==
    CASE model = "HS_GAME_BOY_MODEL_GAME_BOY" -> "GB_MODEL_DMG"
      [] model = "HS_GAME_BOY_MODEL_GAME_BOY_POCKET" -> "GB_MODEL_MGB"
      [] model = "HS_GAME_BOY_MODEL_GAME_BOY_COLOR" -> "GB_MODEL_CGB"
      [] model = "HS_GAME_BOY_MODEL_GAME_BOY_ADVANCE" -> "GB_MODEL_AGB"
      [] model = "HS_GAME_BOY_MODEL_SUPER_GAME_BOY" -> "GB_MODEL_SGB"
      [] model = "HS_GAME_BOY_MODEL_SUPER_GAME_BOY_2" -> "GB_MODEL_SGB"
      [] OTHER -> "g_assert_not_reached"

HsToGBModel_NoAssert(model) ==
    CASE model = "HS_GAME_BOY_MODEL_GAME_BOY" -> "GB_MODEL_DMG"
      [] model = "HS_GAME_BOY_MODEL_GAME_BOY_POCKET" -> "GB_MODEL_MGB"
      [] model = "HS_GAME_BOY_MODEL_GAME_BOY_COLOR" -> "GB_MODEL_CGB"
      [] model = "HS_GAME_BOY_MODEL_GAME_BOY_ADVANCE" -> "GB_MODEL_AGB"
      [] model = "HS_GAME_BOY_MODEL_SUPER_GAME_BOY" -> "GB_MODEL_SGB"
      [] model = "HS_GAME_BOY_MODEL_SUPER_GAME_BOY_2" -> "GB_MODEL_SGB2"
      [] OTHER -> "GB_MODEL_AUTODETECT"

\* The switch of mgba_game_boy_core_set_model.
HsToGBModel(model) ==
    CASE model = "HS_GAME_BOY_MODEL_GAME_BOY" -> "GB_MODEL_DMG"
      [] model = "HS_GAME_BOY_MODEL_GAME_BOY_POCKET" -> "GB_MODEL_MGB"
      [] model = "HS_GAME_BOY_MODEL_GAME_BOY_COLOR" -> "GB_MODEL_CGB"
      [] model = "HS_GAME_BOY_MODEL_GAME_BOY_ADVANCE" -> "GB_MODEL_AGB"
      [] model = "HS_GAME_BOY_MODEL_SUPER_GAME_BOY" -> "GB_MODEL_SGB"
      [] model = "HS_GAME_BOY_MODEL_SUPER_GAME_BOY_2" -> "GB_MODEL_SGB2"
      [] OTHER -> "g_assert_not_reached"

\* GBModelToName of the engine: the configuration name of a model.
GBModelToName(mgba_model) ==
    CASE mgba_model = "GB_MODEL_DMG" -> "DMG"
      [] mgba_model = "GB_MODEL_MGB" -> "MGB"
      [] mgba_model = "GB_MODEL_CGB" -> "CGB"
      [] mgba_model = "GB_MODEL_AGB" -> "AGB"
      [] mgba_model = "GB_MODEL_SGB" -> "SGB"
      [] mgba_model = "GB_MODEL_SGB2" -> "SGB2"
      [] OTHER -> "Autodetect"

\* The color-handling mode that goes with a variant.
ColorModeOf(variant) ==
    CASE variant \in {"DMG", "MGB"} -> "NONE"
      [] variant \in {"CGB", "AGB"} -> "CGB"
      [] variant \in {"SGB", "SGB2"} -> "SGB"
      [] OTHER -> "NONE"

(***************************************************************************)
(* State                                                                   *)
(***************************************************************************)
VARIABLES
    core,                           \* the file-level "static mGBACore *core"
    live,                           \* the instances initialised and not finalized
    self,                           \* the instance the fields below belong to
    phase,                          \* "none", "inited" or "constructed"
    platform,                       \* hs_core_get_platform (self)
    audio_buffer_size,              \* self->audio_buffer_size, in int16 values
    audio_samples_per_frame_avg,    \* self->audio_samples_per_frame_avg
    config,                         \* the engine's model configuration keys
    last_model,                     \* the argument of the last set_model call
    halt,                           \* "no", or the function whose assertion aborted
    obs,                            \* what the last run_frame did
    dispatched,                     \* the instance the last callback was delivered to
    frames,                         \* run_frame calls so far
    created,                        \* instances created so far
    nominal,                        \* samples_per_frame as mgba_core_constructed computed it
    rq,                             \* the request handed to the model resolver
    resolved                        \* the resolver's answer

vars == << core, live, self, phase, platform, audio_buffer_size,
           audio_samples_per_frame_avg, config, last_model, halt, obs,
           dispatched, frames, created, nominal, rq, resolved >>

instanceVars == << platform, audio_buffer_size, audio_samples_per_frame_avg, nominal >>
resolverVars == << rq, resolved >>

NoObs ==
    [ path |-> "none", available |-> 0, samples_to_read |-> 0, produced |-> 0,
      remaining |-> 0, trace |-> <<>>, reads |-> <<>>, played |-> <<>> ]

NoConfig == [k \in ModelKeys |-> "unset"]

NoRequest == [mode |-> "none"]
NoResult == [variant |-> "none"]

Init ==
    /\ core = NULL
    /\ live = {}
    /\ self = 0
    /\ phase = "none"
    /\ platform = "none"
    /\ audio_buffer_size = 0
    /\ audio_samples_per_frame_avg = FZero
    /\ config = NoConfig
    /\ last_model = "none"
    /\ halt = "no"
    /\ obs = NoObs
    /\ dispatched = 0
    /\ frames = 0
    /\ created = 0
    /\ nominal = 0
    /\ rq = NoRequest
    /\ resolved = NoResult

(***************************************************************************)
(* Life cycle                                                              *)
(***************************************************************************)
\* core = self
CoreAfterInit(id) == id

\* Faulty variant: leaves the pointer at the finalized instance.
CoreAfterFinalize_Kept(c) == c

\* core = NULL
CoreAfterFinalize(c) == NULL

\* Instance initialisation: g_assert (!core); core = self.
mgba_core_init ==
    /\ halt = "no"
    /\ phase \in {"none", "constructed"}
    /\ created < MaxInstances
    /\ IF core # NULL
       THEN /\ halt' = "mgba_core_init"
            /\ UNCHANGED << core, live, self, phase, created, instanceVars, config,
                            last_model, obs, dispatched >>
       ELSE /\ core' = CoreAfterInit(created + 1)
            /\ live' = live \cup {created + 1}
            /\ self' = created + 1
            /\ created' = created + 1
            /\ phase' = "inited"
            /\ platform' = "none"
            /\ audio_buffer_size' = 0
            /\ audio_samples_per_frame_avg' = FZero
            /\ nominal' = 0
            /\ config' = NoConfig
            /\ last_model' = "none"
            /\ obs' = NoObs
            /\ dispatched' = 0
            /\ halt' = halt
    /\ UNCHANGED << frames, resolverVars >>

\* The platform is a construction property; the timing is what the freshly
\* created engine reports.
mgba_core_constructed(p, t) ==
    /\ halt = "no"
    /\ phase = "inited"
    /\ phase' = "constructed"
    /\ platform' = p
    /\ audio_buffer_size' = InitialBufferSize(p, t)
    /\ audio_samples_per_frame_avg' = InitialEstimate(p, t)
    /\ nominal' = IF p = "GBA" THEN SamplesPerFrame(t) ELSE GB_SAMPLES
    /\ UNCHANGED << core, live, self, config, last_model, halt, obs, dispatched,
                    frames, created, resolverVars >>

mgba_core_finalize ==
    /\ halt = "no"
    /\ phase = "constructed"
    /\ core' = CoreAfterFinalize(core)
    /\ live' = live \ {self}
    /\ self' = 0
    /\ phase' = "none"
    /\ platform' = "none"
    /\ audio_buffer_size' = 0
    /\ audio_samples_per_frame_avg' = FZero
    /\ nominal' = 0
    /\ config' = NoConfig
    /\ last_model' = "none"
    /\ obs' = NoObs
    /\ dispatched' = 0
    /\ UNCHANGED << halt, frames, created, resolverVars >>

\* The engine logs or drives the rumble motor: both callbacks go through the
\* file-level pointer.
log_cb ==
    /\ halt = "no"
    /\ phase = "constructed"
    /\ dispatched' = core
    /\ UNCHANGED << core, live, self, phase, instanceVars, config, last_model, halt,
                    obs, frames, created, resolverVars >>

set_rumble_cb ==
    /\ halt = "no"
    /\ phase = "constructed"
    /\ dispatched' = core
    /\ UNCHANGED << core, live, self, phase, instanceVars, config, last_model, halt,
                    obs, frames, created, resolverVars >>

(***************************************************************************)
(* mgba_game_boy_core_set_model                                            *)
(***************************************************************************)
mgba_game_boy_core_set_model(model) ==
    /\ halt = "no"
    /\ phase = "constructed"
    /\ last_model' = model
    /\ LET mgba_model == HsToGBModel(model)
       IN IF mgba_model = "g_assert_not_reached"
          THEN /\ halt' = "mgba_game_boy_core_set_model"
               /\ config' = config
          ELSE /\ halt' = halt
               /\ config' = [k \in ModelKeys |-> GBModelToName(mgba_model)]
    /\ UNCHANGED << core, live, self, phase, instanceVars, obs, dispatched,
                    frames, created, resolverVars >>

(***************************************************************************)
(* mgba_core_run_frame                                                     *)
(***************************************************************************)
\* The accumulator-drain path (is_gba): `available` is what
\* mAudioBufferAvailable returns after the engine's runFrame.
RunFrameGBA(available) ==
    LET has == HasSamples(available)
        avg == IF has THEN EstimateUpdate(audio_samples_per_frame_avg, available)
                      ELSE audio_samples_per_frame_avg
        samples_to_read == IF has THEN SamplesToRead(avg) ELSE 0
        size == IF has THEN ResizeBuffer(audio_buffer_size, samples_to_read)
                       ELSE audio_buffer_size
        produced == IF has THEN mAudioBufferRead(available, samples_to_read) ELSE 0
        play == has /\ ShouldPlay(produced)
    IN /\ audio_samples_per_frame_avg' = avg
       /\ audio_buffer_size' = size
       /\ obs' = [ path |-> "drain",
                   available |-> available,
                   samples_to_read |-> samples_to_read,
                   produced |-> produced,
                   remaining |-> available - produced,
                   trace |-> << "runFrame", "mAudioBufferAvailable" >>
                             \o (IF has THEN << "estimate", "mAudioBufferRead" >>
                                        ELSE << >>)
                             \o (IF play THEN << "hs_core_play_samples" >> ELSE << >>),
                   reads |-> IF has THEN << [ req |-> samples_to_read * 2,
                                              cap |-> size ] >>
                                    ELSE << >>,
                   played |-> IF play THEN << PlayLength(produced) >> ELSE << >> ]
       /\ UNCHANGED << halt, dispatched >>

RECURSIVE PostedLengths(_)
\* The lengths postAudioBuffer hands to the host over the calls of one runFrame.
PostedLengths(cbs) ==
    IF cbs = << >> THEN << >>
    ELSE LET produced == mAudioBufferRead(Head(cbs), GB_SAMPLES)
         IN (IF ShouldPlay(produced) THEN << PlayLength(produced) >> ELSE << >>)
            \o PostedLengths(Tail(cbs))

\* The push path: runFrame calls postAudioBuffer once per entry of cbs; each
\* call asserts the file-level pointer and reads GB_SAMPLES frames into the
\* buffer of the instance it points to.
RunFrameGB(cbs) ==
    IF cbs # << >> /\ core = NULL
    THEN /\ halt' = "postAudioBuffer"
         /\ UNCHANGED << audio_samples_per_frame_avg, audio_buffer_size, obs, dispatched >>
    ELSE /\ obs' = [ path |-> "push",
                     available |-> 0,
                     samples_to_read |-> 0,
                     produced |-> 0,
                     remaining |-> 0,
                     trace |-> << "runFrame" >>,
                     reads |-> [ i \in 1..Len(cbs) |->
                                   [ req |-> GB_SAMPLES * 2, cap |-> audio_buffer_size ] ],
                     played |-> PostedLengths(cbs) ]
         /\ dispatched' = IF cbs # << >> THEN core ELSE dispatched
         /\ UNCHANGED << halt, audio_samples_per_frame_avg, audio_buffer_size >>

mgba_core_run_frame(available, cbs) ==
    /\ halt = "no"
    /\ phase = "constructed"
    /\ IF platform = "GBA" THEN cbs = << >> /\ RunFrameGBA(available)
                           ELSE available = 0 /\ RunFrameGB(cbs)
    /\ frames' = frames + 1
    /\ UNCHANGED << core, live, self, phase, platform, nominal, config, last_model,
                    created, resolverVars >>

Next ==
    \/ mgba_core_init
    \/ \E p \in Platforms, t \in EngineTimings : mgba_core_constructed(p, t)
    \/ mgba_core_finalize
    \/ log_cb
    \/ set_rumble_cb
    \/ \E model \in HsGameBoyModels \cup {UndefinedModel} :
          mgba_game_boy_core_set_model(model)
    \/ \E available \in AvailableValues, cbs \in CallbackRuns :
          frames < MaxFrames /\ mgba_core_run_frame(available, cbs)

Spec == Init /\ [][Next]_vars

(***************************************************************************)
(* A constant accumulator: a Game Boy Advance instance, constructed, whose *)
(* engine leaves 800 sample frames available after every runFrame.         *)
(***************************************************************************)
\* The synthetic accumulator: the one value it reports.
ConstAccumulator == {800}

InitConst ==
    /\ core = 1
    /\ live = {1}
    /\ self = 1
    /\ phase = "constructed"
    /\ platform = "GBA"
    /\ \E t \in EngineTimings :
          /\ audio_buffer_size = InitialBufferSize("GBA", t)
          /\ audio_samples_per_frame_avg = InitialEstimate("GBA", t)
          /\ nominal = SamplesPerFrame(t)
    /\ config = NoConfig
    /\ last_model = "none"
    /\ halt = "no"
    /\ obs = NoObs
    /\ dispatched = 0
    /\ frames = 0
    /\ created = 1
    /\ rq = NoRequest
    /\ resolved = NoResult

NextConst ==
    \E available \in ConstAccumulator :
        frames < MaxConstCalls /\ mgba_core_run_frame(available, << >>)

SpecConst == InitConst /\ [][NextConst]_vars

(***************************************************************************)
(* The model resolver for a ROM load                                       *)
(***************************************************************************)
\* Bytes of ROM the cartridge header window needs: the header ends at 0x14F.
HeaderWindowSize == 336

GBVariants == {"DMG", "MGB", "SGB", "CGB", "AGB"}
FixedVariants == {"DMG", "MGB", "CGB", "AGB", "SGB", "SGB2"}
AutoModes == {"AutoPreferColor", "AutoPreferSuperGB"}

\* The 4-case classification of the models the header declares.
ClassifyValid(valid) ==
    CASE valid = {"SGB", "MGB"} -> [sgb |-> TRUE, cgb |-> FALSE]
      [] valid = {"SGB", "CGB"} \/ valid = {"MGB", "SGB", "CGB"} ->
            [sgb |-> TRUE, cgb |-> TRUE]
      [] valid = {"CGB"} \/ valid = {"MGB", "CGB"} -> [sgb |-> FALSE, cgb |-> TRUE]
      [] OTHER -> [sgb |-> FALSE, cgb |-> FALSE]

\* Faulty variant: tests the color branch before the Super Game Boy branch.
AutoVariant_Reordered(mode, enh, cgb_override, sgb_override) ==
    IF (enh.sgb /\ enh.cgb) \/ (cgb_override /\ sgb_override)
    THEN IF mode = "AutoPreferColor" THEN "CGB" ELSE "SGB"
    ELSE IF enh.cgb \/ cgb_override THEN "CGB"
    ELSE IF enh.sgb \/ (sgb_override /\ ~enh.cgb) THEN "SGB"
    ELSE "DMG"

\* The tie-break, in its order.
AutoVariant(mode, enh, cgb_override, sgb_override) ==
    IF (enh.sgb /\ enh.cgb) \/ (cgb_override /\ sgb_override)
    THEN IF mode = "AutoPreferColor" THEN "CGB" ELSE "SGB"
    ELSE IF enh.sgb \/ (sgb_override /\ ~enh.cgb) THEN "SGB"
    ELSE IF enh.cgb \/ cgb_override THEN "CGB"
    ELSE "DMG"

ResolveModel(r) ==
    IF r.mode = "Fixed"
    THEN [ variant |-> r.variant, colorMode |-> ColorModeOf(r.variant),
           header_read |-> FALSE, raised |-> FALSE ]
    ELSE IF r.rom_len < HeaderWindowSize
    THEN [ variant |-> "DMG", colorMode |-> "NONE",
           header_read |-> FALSE, raised |-> FALSE ]
    ELSE LET v == AutoVariant(r.mode, ClassifyValid(r.valid),
                              r.cgb_override, r.sgb_override)
         IN [ variant |-> v, colorMode |-> ColorModeOf(v),
              header_read |-> TRUE, raised |-> FALSE ]

Requests ==
    [ mode : AutoModes \cup {"Fixed"},
      variant : FixedVariants,
      rom_len : {0, HeaderWindowSize - 1, HeaderWindowSize},
      valid : (SUBSET GBVariants) \ {{}},
      cgb_override : BOOLEAN,
      sgb_override : BOOLEAN ]

InitResolve ==
    /\ core = NULL
    /\ live = {}
    /\ self = 0
    /\ phase = "none"
    /\ platform = "none"
    /\ audio_buffer_size = 0
    /\ audio_samples_per_frame_avg = FZero
    /\ nominal = 0
    /\ config = NoConfig
    /\ last_model = "none"
    /\ halt = "no"
    /\ obs = NoObs
    /\ dispatched = 0
    /\ frames = 0
    /\ created = 0
    /\ rq \in Requests
    /\ resolved = NoResult

Resolve ==
    /\ resolved = NoResult
    /\ resolved' = ResolveModel(rq)
    /\ UNCHANGED << core, live, self, phase, instanceVars, config, last_model, halt,
                    obs, dispatched, frames, created, rq >>

NextResolve == Resolve

SpecResolve == InitResolve /\ [][NextResolve]_vars

(***************************************************************************)
(* Properties                                                              *)
(***************************************************************************)
DrainFrame == obs.path = "drain"
Estimate == audio_samples_per_frame_avg
Count(seq, v) == Cardinality({i \in DOMAIN seq : seq[i] = v})

\* C1: on a frame of the drain path with available > 0, the frames drained are
\* exactly min(floor(estimate), available), never more than available, what is
\* left in the accumulator is the rest, and the block handed to the host holds
\* exactly two int16 values per drained frame (no block when nothing is drained).
C1_DrainExact ==
    (DrainFrame /\ obs.available > 0) =>
        LET n == Min(FloatToSize(Estimate), obs.available)
        IN /\ obs.produced = n
           /\ obs.produced <= obs.available
           /\ obs.remaining = obs.available - n
           /\ obs.played = IF n > 0 THEN << 2 * n >> ELSE << >>

\* A later frame whose drain is cut short by what is available.
C1_Witness ==
    /\ DrainFrame
    /\ frames >= 2
    /\ obs.available = 800
    /\ obs.produced = 800
    /\ FloatToSize(Estimate) > 800
    /\ obs.played = << 1600 >>

\* C2: every read into the output buffer asks for at most audio_buffer_size
\* int16 values, on the drain path and in postAudioBuffer alike.
C2_ReadsFit ==
    \A i \in DOMAIN obs.reads :
        /\ obs.reads[i].cap = audio_buffer_size
        /\ obs.reads[i].req <= obs.reads[i].cap

\* A read that fills a buffer grown beyond its size at construction.
C2_Witness ==
    /\ DrainFrame
    /\ obs.reads # << >>
    /\ obs.reads[1].req = audio_buffer_size
    /\ audio_buffer_size > 2 * nominal
    /\ nominal > 0

\* C3: while an instance lives its buffer capacity never decreases; it changes
\* only by growing to exactly 2 x floor(estimate), a positive size.
C3_CapacityMonotone ==
    [][ (phase = "constructed" /\ phase' = "constructed") =>
            /\ audio_buffer_size' >= audio_buffer_size
            /\ (audio_buffer_size' # audio_buffer_size =>
                   /\ audio_buffer_size' = 2 * FloatToSize(audio_samples_per_frame_avg')
                   /\ audio_buffer_size' > audio_buffer_size
                   /\ audio_buffer_size' > 0) ]_vars

\* An empty frame after the buffer has grown beyond its size at construction.
C3_Witness ==
    /\ DrainFrame
    /\ obs.available = 0
    /\ frames >= 2
    /\ nominal > 0
    /\ audio_buffer_size > 2 * nominal

\* C4: a drain-path frame that finds the accumulator empty delivers nothing to
\* the host, raises nothing, and leaves estimate, capacity and accumulator alone.
C4_EmptyFrame ==
    [][ (frames' = frames + 1 /\ obs'.path = "drain" /\ obs'.available = 0) =>
            /\ obs'.played = << >>
            /\ obs'.produced = 0
            /\ obs'.remaining = obs'.available
            /\ audio_samples_per_frame_avg' = audio_samples_per_frame_avg
            /\ audio_buffer_size' = audio_buffer_size
            /\ halt' = "no" ]_vars

\* Three empty frames in a row, the estimate still the nominal value.
C4_Witness ==
    /\ DrainFrame
    /\ obs.available = 0
    /\ frames >= 3
    /\ nominal > 0
    /\ Estimate = IntToFloat(nominal)
    /\ audio_buffer_size = 2 * nominal

\* f >= k and f <= k for an integer 0 <= k < 2^24
FloatGeInt(f, k) == FloatToSize(f) >= k
FloatLeInt(f, k) ==
    \/ FloatToSize(f) < k
    \/ FloatToSize(f) = k /\ IntToFloat(k) = f

Within(f, centre, d) == FloatGeInt(f, centre - d) /\ FloatLeInt(f, centre + d)

\* C5 as stated: with 800 available on every call, after at least 540 calls the
\* estimate is within 1% of 800, and every call drains exactly floor(estimate).
C5_Original ==
    /\ frames >= 540 => Within(Estimate, 800, 8)
    /\ frames >= 1 => /\ obs.produced = FloatToSize(Estimate)
                      /\ obs.produced <= obs.available

\* C5 amended: with 800 available on every call, after at least 540 calls the
\* estimate lies within ceil(|nominal - 800| / 20) + 1 sample frames of 800
\* (540 calls shrink the initial distance to a little under one twentieth), and
\* every call drains exactly min(floor(estimate), 800).
C5_Amended ==
    LET dist == IF nominal >= 800 THEN nominal - 800 ELSE 800 - nominal
    IN /\ frames >= 540 => Within(Estimate, 800, (dist + 19) \div 20 + 1)
       /\ frames >= 1 => /\ obs.produced = Min(FloatToSize(Estimate), 800)
                         /\ obs.produced <= obs.available

\* 540 calls from the nominal of a 32768 Hz engine: still more than 1% away.
C5_Witness ==
    /\ frames = 540
    /\ nominal = 548
    /\ obs.available = 800
    /\ ~Within(Estimate, 800, 8)
    /\ Within(Estimate, 800, 14)
    /\ obs.produced = FloatToSize(Estimate)

SgbEnhanced(valid) == valid \in {{"SGB", "MGB"}, {"SGB", "CGB"}, {"MGB", "SGB", "CGB"}}
CgbEnhanced(valid) ==
    valid \in {{"SGB", "CGB"}, {"MGB", "SGB", "CGB"}, {"CGB"}, {"MGB", "CGB"}}

\* C6: for the two Auto modes a ROM shorter than the header window resolves to
\* {DMG, NONE}; otherwise the variant is CGB or SGB by preference when the
\* header is both sgb- and cgb-enhanced or both overrides exist, else SGB when
\* sgb-enhanced or sgb-overridden without cgb enhancement, else CGB when
\* cgb-enhanced or cgb-overridden, else DMG; and resolution never raises.
C6_AutoResolution ==
    (rq.mode \in AutoModes /\ resolved # NoResult) =>
        LET sgbE == SgbEnhanced(rq.valid)
            cgbE == CgbEnhanced(rq.valid)
            short == rq.rom_len < HeaderWindowSize
            both == (sgbE /\ cgbE) \/ (rq.cgb_override /\ rq.sgb_override)
            sgbOnly == ~both /\ (sgbE \/ (rq.sgb_override /\ ~cgbE))
            cgbOnly == ~both /\ ~sgbOnly /\ (cgbE \/ rq.cgb_override)
        IN /\ ~resolved.raised
           /\ short => resolved.variant = "DMG" /\ resolved.colorMode = "NONE"
           /\ (~short /\ both /\ rq.mode = "AutoPreferColor") => resolved.variant = "CGB"
           /\ (~short /\ both /\ rq.mode = "AutoPreferSuperGB") => resolved.variant = "SGB"
           /\ (~short /\ sgbOnly) => resolved.variant = "SGB"
           /\ (~short /\ cgbOnly) => resolved.variant = "CGB"
           /\ (~short /\ ~both /\ ~sgbOnly /\ ~cgbOnly) => resolved.variant = "DMG"

\* A header that declares Super Game Boy support only, with a color override.
C6_Witness ==
    /\ rq.mode = "AutoPreferColor"
    /\ rq.rom_len >= HeaderWindowSize
    /\ rq.valid = {"SGB", "MGB"}
    /\ rq.cgb_override /\ ~rq.sgb_override
    /\ resolved # NoResult
    /\ resolved.variant = "SGB"

ExpectedVariant ==
    [ HS_GAME_BOY_MODEL_GAME_BOY |-> "DMG",
      HS_GAME_BOY_MODEL_GAME_BOY_POCKET |-> "MGB",
      HS_GAME_BOY_MODEL_GAME_BOY_COLOR |-> "CGB",
      HS_GAME_BOY_MODEL_GAME_BOY_ADVANCE |-> "AGB",
      HS_GAME_BOY_MODEL_SUPER_GAME_BOY |-> "SGB",
      HS_GAME_BOY_MODEL_SUPER_GAME_BOY_2 |-> "SGB2" ]

ExpectedColorMode ==
    [ DMG |-> "NONE", MGB |-> "NONE", CGB |-> "CGB", AGB |-> "CGB",
      SGB |-> "SGB", SGB2 |-> "SGB" ]

\* C7: a request for one of the six host models writes its own engine variant
\* (six requests, six different variants) to all five model keys, the color
\* mode that goes with it is NONE, CGB or SGB by the table, and the call
\* touches nothing but the configuration.
C7_FixedMapping ==
    [][ (last_model' \in HsGameBoyModels /\ (last_model' # last_model \/ config' # config)) =>
            /\ \A k \in ModelKeys : config'[k] = ExpectedVariant[last_model']
            /\ ColorModeOf(config'["gb.model"]) = ExpectedColorMode[config'["gb.model"]]
            /\ \A m \in HsGameBoyModels :
                   ExpectedVariant[m] = config'["gb.model"] => m = last_model'
            /\ halt' = "no"
            /\ UNCHANGED << core, live, self, phase, instanceVars, obs, dispatched,
                            frames, created, resolverVars >> ]_vars

\* Super Game Boy 2 requested and configured.
C7_Witness ==
    /\ last_model = "HS_GAME_BOY_MODEL_SUPER_GAME_BOY_2"
    /\ \A k \in ModelKeys : config[k] = "SGB2"
    /\ ColorModeOf(config["sgb.model"]) = "SGB"
    /\ halt = "no"

\* C8: a request with a value that is none of the six models aborts in
\* set_model with every model key as it was, and no key ever holds anything
\* but one of the six variants.
C8_UndefinedHalts ==
    [][ /\ (last_model' \notin HsGameBoyModels \cup {"none"}) =>
              /\ halt' = "mgba_game_boy_core_set_model"
              /\ config' = config
        /\ \A k \in ModelKeys : config'[k] \in FixedVariants \cup {"unset"} ]_vars

\* An undefined request after a Color configuration: aborted, keys untouched.
C8_Witness ==
    /\ last_model = UndefinedModel
    /\ halt = "mgba_game_boy_core_set_model"
    /\ \A k \in ModelKeys : config[k] = "CGB"

DrainTraces ==
    { << "runFrame", "mAudioBufferAvailable" >>,
      << "runFrame", "mAudioBufferAvailable", "estimate", "mAudioBufferRead" >>,
      << "runFrame", "mAudioBufferAvailable", "estimate", "mAudioBufferRead",
         "hs_core_play_samples" >> }

\* C9: a drain-path run_frame steps the engine first, then updates the estimate
\* and reads the accumulator at most once each, then calls the host's sink at
\* most once, and only when a positive number of frames was drained.
C9_FrameOrder ==
    DrainFrame =>
        /\ obs.trace \in DrainTraces
        /\ Count(obs.trace, "estimate") <= 1
        /\ Count(obs.trace, "mAudioBufferRead") <= 1
        /\ Len(obs.played) = Count(obs.trace, "hs_core_play_samples")
        /\ Len(obs.played) <= 1
        /\ (obs.played # << >>) <=> (obs.produced > 0)
        /\ \A i \in DOMAIN obs.played : obs.played[i] > 0
        /\ halt # "mgba_core_run_frame"

\* Samples available, an estimate below one frame: nothing read, nothing played.
C9_Witness ==
    /\ DrainFrame
    /\ obs.available > 0
    /\ obs.samples_to_read = 0
    /\ obs.produced = 0
    /\ obs.played = << >>
    /\ obs.trace = << "runFrame", "mAudioBufferAvailable", "estimate", "mAudioBufferRead" >>

\* C10: at most one instance is live; the file-level pointer is exactly that
\* instance while it lives and NULL otherwise, so an initialisation aborts only
\* when an instance is live, and every callback is delivered to the live one.
C10_SingleInstance ==
    /\ Cardinality(live) <= 1
    /\ live = {} => core = NULL
    /\ live # {} => core \in live /\ core = self
    /\ dispatched # 0 => dispatched \in live
    /\ halt = "mgba_core_init" => live # {}
    /\ halt # "postAudioBuffer"

\* A second instance, created after the first was finalized, receiving a callback.
C10_Witness ==
    /\ created = 2
    /\ live = {2}
    /\ core = 2
    /\ phase = "constructed"
    /\ dispatched = 2
    /\ halt = "no"

====
